---- MODULE Spec2Model ----
(***************************************************************************)
(* Model of the two Streamlit scripts DEPLOY_UAS/deploy2.py and            *)
(* modeling1/deploy1.py: a cached data frame (year, gini_disp), an alpha   *)
(* slider, a run button, and Brown's Double Exponential Smoothing computed *)
(* in IEEE-754 binary64 arithmetic (Python float / numpy float64).         *)
(***************************************************************************)
EXTENDS Integers, Sequences, FiniteSets, TLC

VARIABLES
  program,  \* which of the two scripts this session runs
  cached,   \* whether st.cache_data holds the result of load_data()
  df,       \* the frame load_data() returned (<<>> before the first script run)
  slider,   \* the value of the alpha slider
  page,     \* what the last script run computed and rendered ("idle": nothing)
  firstRun  \* history: the alpha and the outcome of the session's first pressed run

vars == <<program, cached, df, slider, page, firstRun>>

(***************************************************************************)
(* Natural numbers of arbitrary size: little-endian sequences of limbs in  *)
(* 0..Base-1 without leading zero limbs (<<>> is 0).  They carry the       *)
(* significands of binary64 values, which do not fit TLC's integers.       *)
(***************************************************************************)
Base == 2^14

RECURSIVE SmallBitLen(_)
SmallBitLen(n) == IF n = 0 THEN 0 ELSE 1 + SmallBitLen(n \div 2)

\* the number of bits of a limb
LimbBits == SmallBitLen(Base) - 1

Max(i, j) == IF i >= j THEN i ELSE j

Min(i, j) == IF i <= j THEN i ELSE j

RECURSIVE Strip(_)
Strip(a) ==
  IF a = <<>> THEN <<>>
  ELSE IF a[Len(a)] = 0 THEN Strip(SubSeq(a, 1, Len(a) - 1))
  ELSE a

\* Carry propagation over a sequence of (possibly negative or large) columns
\* whose weighted sum is a natural number.
RECURSIVE Carry(_, _, _)
Carry(cols, i, c) ==
  IF i > Len(cols)
  THEN IF c = 0 THEN <<>> ELSE <<c % Base>> \o Carry(cols, i, c \div Base)
  ELSE <<(cols[i] + c) % Base>> \o Carry(cols, i + 1, (cols[i] + c) \div Base)

Limb(a, i) == IF i >= 1 /\ i <= Len(a) THEN a[i] ELSE 0

BFromInt(n) == Strip(Carry(<<n>>, 1, 0))

BAdd(a, b) == Strip(Carry([i \in 1..Max(Len(a), Len(b)) |-> Limb(a, i) + Limb(b, i)], 1, 0))

\* a - b for a >= b
BSub(a, b) == Strip(Carry([i \in 1..Max(Len(a), Len(b)) |-> Limb(a, i) - Limb(b, i)], 1, 0))

RECURSIVE ColSum(_, _, _, _)
ColSum(a, b, k, i) ==
  IF i > Len(a) THEN 0
  ELSE a[i] * Limb(b, k + 1 - i) + ColSum(a, b, k, i + 1)

BMul(a, b) ==
  IF a = <<>> \/ b = <<>> THEN <<>>
  ELSE Strip(Carry([k \in 1..(Len(a) + Len(b)) |-> ColSum(a, b, k, 1)], 1, 0))

RECURSIVE CmpFrom(_, _, _)
CmpFrom(a, b, i) ==
  IF i = 0 THEN 0
  ELSE IF a[i] > b[i] THEN 1
  ELSE IF a[i] < b[i] THEN -1
  ELSE CmpFrom(a, b, i - 1)

\* -1, 0, 1 as a < b, a = b, a > b
BCmp(a, b) ==
  IF Len(a) > Len(b) THEN 1
  ELSE IF Len(a) < Len(b) THEN -1
  ELSE CmpFrom(a, b, Len(a))

BitLen(a) == IF a = <<>> THEN 0 ELSE (Len(a) - 1) * LimbBits + SmallBitLen(a[Len(a)])

\* a * 2^k
BShl(a, k) ==
  LET q == k \div LimbBits
      r == k % LimbBits
  IN  IF a = <<>> THEN <<>>
      ELSE Strip(Carry([i \in 1..(Len(a) + q) |-> IF i <= q THEN 0 ELSE a[i - q] * 2^r], 1, 0))

\* floor(a / 2^k)
BShr(a, k) ==
  LET q == k \div LimbBits
      r == k % LimbBits
      n == Len(a) - q
  IN  IF n <= 0 THEN <<>>
      ELSE Strip([i \in 1..n |->
                   (a[i + q] \div 2^r) + (Limb(a, i + q + 1) % 2^r) * 2^(LimbBits - r)])

\* bit k (0 is the lowest) of a
BBit(a, k) == (Limb(a, (k \div LimbBits) + 1) \div 2^(k % LimbBits)) % 2

\* whether the k lowest bits of a are all zero
BLowZero(a, k) ==
  LET q == k \div LimbBits
      r == k % LimbBits
  IN  /\ \A i \in 1..Min(q, Len(a)) : a[i] = 0
      /\ Limb(a, q + 1) % 2^r = 0

BOdd(a) == Limb(a, 1) % 2 = 1

\* a * k for a small natural k < Base
MulSmall(a, k) == Strip(Carry([i \in 1..Len(a) |-> a[i] * k], 1, 0))

\* lowers an estimated quotient digit qh (P = qh * d) until P <= R
RECURSIVE FixDigit(_, _, _, _)
FixDigit(R, d, qh, P) ==
  IF BCmp(P, R) > 0 THEN FixDigit(R, d, qh - 1, BSub(P, d))
  ELSE <<qh, BSub(R, P)>>

\* one step of long division in base Base, for rem < d and d with its top
\* limb >= Base/2: <<floor(R / d), R mod d>> where R = rem * Base + low
DivDigit(rem, d, low) ==
  LET R  == Strip(<<low>> \o rem)
      n  == Len(d)
      qh == Min(Base - 1, (Limb(R, n + 1) * Base + Limb(R, n)) \div d[n])
  IN  FixDigit(R, d, qh, MulSmall(d, qh))

\* nl further quotient limbs of rem / d; the result is <<quotient, remainder>>
RECURSIVE DivLimbs(_, _, _, _)
DivLimbs(q, rem, d, nl) ==
  IF nl = 0 THEN <<Strip(q), rem>>
  ELSE LET dr == DivDigit(rem, d, 0)
       IN  IF dr[1] >= 0 THEN DivLimbs(<<dr[1]>> \o q, dr[2], d, nl - 1)
           ELSE <<q, rem>>

\* long division of n by d (top limb of d >= Base/2), from limb i of n down
RECURSIVE LongDiv(_, _, _, _, _)
LongDiv(q, rem, n, d, i) ==
  IF i = 0 THEN <<Strip(q), rem>>
  ELSE LET dr == DivDigit(rem, d, n[i])
       IN  IF dr[1] >= 0 THEN LongDiv(<<dr[1]>> \o q, dr[2], n, d, i - 1)
           ELSE <<q, rem>>

Normalized(n, d, sh) == LongDiv(<<>>, <<>>, BShl(n, sh), BShl(d, sh), Len(BShl(n, sh)))[1]

\* floor(n / d) for d > 0
BDiv(n, d) == Normalized(n, d, (LimbBits - (BitLen(d) % LimbBits)) % LimbBits)

\* floor(sqrt(n)) of a small natural, bit by bit
RECURSIVE SmallSqrt(_, _, _)
SmallSqrt(n, r, bit) ==
  IF bit < 0 THEN r
  ELSE IF (r + 2^bit) * (r + 2^bit) <= n THEN SmallSqrt(n, r + 2^bit, bit - 1)
  ELSE SmallSqrt(n, r, bit - 1)

\* Newton's iteration from r >= floor(sqrt(n)) down to floor(sqrt(n))
RECURSIVE NewtonSqrt(_, _)
NewtonSqrt(r, n) ==
  LET r1 == BShr(BAdd(r, BDiv(n, r)), 1)
  IN  IF BCmp(r1, r) >= 0 THEN r ELSE NewtonSqrt(r1, n)

SqrtFrom(n, k) ==
  LET top == BShr(n, 2 * k)
      s0  == SmallSqrt(Limb(top, 1) + Limb(top, 2) * Base, 0, LimbBits - 1) + 1
  IN  NewtonSqrt(BShl(BFromInt(s0), k), n)

\* floor(sqrt(n)): the start value comes from the top 2 * LimbBits bits of n
BSqrt(n) ==
  IF n = <<>> THEN <<>>
  ELSE SqrtFrom(n, Max(0, (BitLen(n) - 2 * LimbBits + 1) \div 2))

(***************************************************************************)
(* IEEE-754 binary64 values (Python float, numpy float64): a record        *)
(* [k, s, m, e] with k in {"fin", "inf", "nan"}, sign s in {0, 1} and, for *)
(* a finite value, magnitude m * 2^e where m is 0 (stored <<>>, e = 0) or  *)
(* has exactly Prec bits.  Every operation computes the exact result and   *)
(* rounds it to nearest, ties to even.  The exponent is not bounded: the   *)
(* values of the model stay far from the overflow and subnormal ranges.    *)
(***************************************************************************)
Prec == 53

FZero(s) == [k |-> "fin", s |-> s, m |-> <<>>, e |-> 0]

FInf(s) == [k |-> "inf", s |-> s, m |-> <<>>, e |-> 0]

FNaN == [k |-> "nan", s |-> 0, m |-> <<>>, e |-> 0]

IsNaN(x) == x.k = "nan"

IsInf(x) == x.k = "inf"

IsFinite(x) == x.k = "fin"

IsZero(x) == x.k = "fin" /\ x.m = <<>>

IsNumber(x) == x.k \in {"fin", "inf"}

Xor(s, t) == (s + t) % 2

\* the binary64 value nearest to (-1)^s * M * 2^E, ties to even
Round(s, M, E) ==
  LET L == BitLen(M)
      d == L - Prec
  IN  IF L = 0 THEN FZero(s)
      ELSE IF d <= 0 THEN [k |-> "fin", s |-> s, m |-> BShl(M, -d), e |-> E + d]
      ELSE LET q    == BShr(M, d)
               half == BBit(M, d - 1) = 1
               rest == ~BLowZero(M, d - 1)
               up   == half /\ (rest \/ BOdd(q))
               q1   == IF up THEN BAdd(q, <<1>>) ELSE q
           IN  IF BitLen(q1) > Prec
               THEN [k |-> "fin", s |-> s, m |-> BShr(q1, 1), e |-> E + d + 1]
               ELSE [k |-> "fin", s |-> s, m |-> q1, e |-> E + d]

\* an integer as a binary64 value (exact for the integers of the model)
FromInt(n) == IF n >= 0 THEN Round(0, BFromInt(n), 0) ELSE Round(1, BFromInt(-n), 0)

FNeg(x) == IF IsNaN(x) THEN x ELSE [x EXCEPT !.s = 1 - x.s]

FAbs(x) == IF IsNaN(x) THEN x ELSE [x EXCEPT !.s = 0]

FMul(x, y) ==
  IF IsNaN(x) \/ IsNaN(y) THEN FNaN
  ELSE IF (IsInf(x) /\ IsZero(y)) \/ (IsZero(x) /\ IsInf(y)) THEN FNaN
  ELSE IF IsInf(x) \/ IsInf(y) THEN FInf(Xor(x.s, y.s))
  ELSE IF IsZero(x) \/ IsZero(y) THEN FZero(Xor(x.s, y.s))
  ELSE Round(Xor(x.s, y.s), BMul(x.m, y.m), x.e + y.e)

FAdd(x, y) ==
  IF IsNaN(x) \/ IsNaN(y) THEN FNaN
  ELSE IF IsInf(x) /\ IsInf(y) THEN (IF x.s = y.s THEN x ELSE FNaN)
  ELSE IF IsInf(x) THEN x
  ELSE IF IsInf(y) THEN y
  ELSE IF IsZero(x) /\ IsZero(y) THEN FZero(IF x.s = 1 /\ y.s = 1 THEN 1 ELSE 0)
  ELSE IF IsZero(x) THEN y
  ELSE IF IsZero(y) THEN x
  ELSE LET e  == Min(x.e, y.e)
           Mx == BShl(x.m, x.e - e)
           My == BShl(y.m, y.e - e)
           c  == BCmp(Mx, My)
       IN  IF x.s = y.s THEN Round(x.s, BAdd(Mx, My), e)
           ELSE IF c = 0 THEN FZero(0)
           ELSE IF c > 0 THEN Round(x.s, BSub(Mx, My), e)
           ELSE Round(y.s, BSub(My, Mx), e)

FSub(x, y) == FAdd(x, FNeg(y))

\* numpy's true division: a zero divisor is no error, it gives inf or nan
FDiv(x, y) ==
  IF IsNaN(x) \/ IsNaN(y) THEN FNaN
  ELSE IF IsInf(x) /\ IsInf(y) THEN FNaN
  ELSE IF IsInf(x) THEN FInf(Xor(x.s, y.s))
  ELSE IF IsInf(y) THEN FZero(Xor(x.s, y.s))
  ELSE IF IsZero(x) /\ IsZero(y) THEN FNaN
  ELSE IF IsZero(y) THEN FInf(Xor(x.s, y.s))
  ELSE IF IsZero(x) THEN FZero(Xor(x.s, y.s))
  ELSE LET sh == (LimbBits - (Prec % LimbBits)) % LimbBits
           nl == ((Prec + 2) \div LimbBits) + 1
           X  == BShl(x.m, sh)
           Y  == BShl(y.m, sh)
           ge == BCmp(X, Y) >= 0
           qr == DivLimbs(IF ge THEN <<1>> ELSE <<>>,
                          IF ge THEN BSub(X, Y) ELSE X, Y, nl)
           M  == BAdd(BShl(qr[1], 1), IF qr[2] = <<>> THEN <<>> ELSE <<1>>)
       IN  Round(Xor(x.s, y.s), M, x.e - y.e - nl * LimbBits - 1)

FSqrt(x) ==
  IF IsNaN(x) THEN FNaN
  ELSE IF IsZero(x) THEN x
  ELSE IF x.s = 1 THEN FNaN
  ELSE IF IsInf(x) THEN x
  ELSE LET j == IF (x.e - (Prec + 4)) % 2 = 0 THEN Prec + 4 ELSE Prec + 5
           N == BShl(x.m, j)
           r == BSqrt(N)
           M == BAdd(BShl(r, 1), IF BMul(r, r) = N THEN <<>> ELSE <<1>>)
       IN  Round(0, M, ((x.e - j) \div 2) - 1)

\* x < y on the reals (false when either is nan)
MagLt(x, y) ==
  IF IsInf(x) THEN FALSE
  ELSE IF IsInf(y) THEN TRUE
  ELSE IF IsZero(y) THEN FALSE
  ELSE IF IsZero(x) THEN TRUE
  ELSE x.e < y.e \/ (x.e = y.e /\ BCmp(x.m, y.m) < 0)

FLt(x, y) ==
  IF IsNaN(x) \/ IsNaN(y) THEN FALSE
  ELSE IF IsZero(x) /\ IsZero(y) THEN FALSE
  ELSE IF x.s = 0 /\ y.s = 0 THEN MagLt(x, y)
  ELSE IF x.s = 1 /\ y.s = 1 THEN MagLt(y, x)
  ELSE x.s = 1

FEq(x, y) ==
  IF IsNaN(x) \/ IsNaN(y) THEN FALSE
  ELSE (IsZero(x) /\ IsZero(y)) \/ x = y

FLe(x, y) == FLt(x, y) \/ FEq(x, y)

FMin(x, y) == IF FLt(y, x) THEN y ELSE x

FMax(x, y) == IF FLt(x, y) THEN y ELSE x

(***************************************************************************)
(* The program.  load_data() yields the cleaned frame, sorted by year and  *)
(* cached; modeling_page(df) draws the alpha slider and, when the button   *)
(* is pressed in this script run, computes DES over the whole frame.       *)
(***************************************************************************)

\* pd.to_numeric / float() of a decimal literal with two places: the
\* binary64 value nearest to k/100
Hundredths(k) == FDiv(FromInt(k), FromInt(100))

One == FromInt(1)

Two == FromInt(2)

Hundred == FromInt(100)

\* bounds of the inputs
MaxLen == 3

GiniCents == {0, 60, 62}

GiniValues == {Hundredths(k) : k \in GiniCents}

RECURSIVE SeqsUpTo(_, _)
SeqsUpTo(S, n) ==
  IF n = 0 THEN {<<>>}
  ELSE LET shorter == SeqsUpTo(S, n - 1)
       IN  shorter \cup {Append(q, v) : q \in {r \in shorter : Len(r) = n - 1}, v \in S}

\* the rows of the worked example of the specification
ExampleCents == <<60, 62, 59, 63>>

ExampleSeries == [i \in 1..Len(ExampleCents) |-> Hundredths(ExampleCents[i])]

\* a frame as load_data() returns it: rows in ascending year order
Frame(values) == [i \in 1..Len(values) |-> [year |-> 2017 + i, gini_disp |-> values[i]]]

Frames == {Frame(v) : v \in SeqsUpTo(GiniValues, MaxLen) \cup {ExampleSeries}}

\* faulty variant: a slider drawn over 0.0 .. 1.0
SliderCentsWide == {0, 80, 100}

\* st.slider("Nilai Alpha", 0.1, 0.9, 0.8): positions in hundredths
SliderMin == 10

SliderMax == 90

SliderDefault == 80

SliderCents == {SliderMin, SliderDefault, SliderMax}

SliderValues == {Hundredths(k) : k \in SliderCents}

Scripts == {"deploy1", "deploy2"}

\* faulty variant: the previous level is not weighted by 1 - alpha
S1NextUnweighted(alpha, yt, s1prev) == FAdd(FMul(alpha, yt), s1prev)

\* one step of the smoothing loop
S1Next(alpha, yt, s1prev) == FAdd(FMul(alpha, yt), FMul(FSub(One, alpha), s1prev))

S2Next(alpha, s1t, s2prev) == FAdd(FMul(alpha, s1t), FMul(FSub(One, alpha), s2prev))

\* faulty variant: S2[t] smooths S1[t-1], the value of the previous step
RECURSIVE SmoothLoopLagged(_, _, _, _, _)
SmoothLoopLagged(S1, S2, y, alpha, t) ==
  IF t > Len(y) \/ Len(S1) # Len(S2) THEN [S1 |-> S1, S2 |-> S2]
  ELSE SmoothLoopLagged(Append(S1, FAdd(FMul(alpha, y[t]), FMul(FSub(One, alpha), S1[t - 1]))),
                        Append(S2, FAdd(FMul(alpha, S1[t - 1]), FMul(FSub(One, alpha), S2[t - 1]))),
                        y, alpha, t + 1)

\* for t in range(1, len(y)): S1.append(...); S2.append(...)
\* (sequences are 1-based: index t here is Python's t - 1)
RECURSIVE SmoothLoop(_, _, _, _, _)
SmoothLoop(S1, S2, y, alpha, t) ==
  IF t > Len(y) \/ Len(S1) # Len(S2) THEN [S1 |-> S1, S2 |-> S2]
  ELSE SmoothLoop(Append(S1, S1Next(alpha, y[t], S1[t - 1])),
                  Append(S2, S2Next(alpha, S1Next(alpha, y[t], S1[t - 1]), S2[t - 1])),
                  y, alpha, t + 1)

\* faulty variant: S1 and S2 outlive the run: a later run goes on from the lists
\* the session's first run left behind
SmoothStale(y, alpha) ==
  IF firstRun.page.status = "ok"
  THEN SmoothLoop(<<firstRun.page.S1[Len(firstRun.page.S1)]>>,
                  <<firstRun.page.S2[Len(firstRun.page.S2)]>>, y, alpha, 2)
  ELSE SmoothLoop(<<y[1]>>, <<y[1]>>, y, alpha, 2)

\* S1 = [y[0]]; S2 = [y[0]]; then the loop
Smooth(y, alpha) == SmoothLoop(<<y[1]>>, <<y[1]>>, y, alpha, 2)

Level(s1, s2) == FSub(FMul(Two, s1), s2)

\* a = [2*S1[i] - S2[i] for i in range(len(y))]
RECURSIVE Levels(_, _, _)
Levels(S1, S2, acc) ==
  IF Len(acc) >= Len(S1) THEN acc
  ELSE Levels(S1, S2, Append(acc, Level(S1[Len(acc) + 1], S2[Len(acc) + 1])))

\* alpha/(1-alpha) on Python floats (a zero divisor raises ZeroDivisionError:
\* see Modeling)
SlopeFactor(alpha) == FDiv(alpha, FSub(One, alpha))

Slope(alpha, s1, s2) == FMul(SlopeFactor(alpha), FSub(s1, s2))

\* b = [(alpha/(1-alpha)) * (S1[i] - S2[i]) for i in range(len(y))]
RECURSIVE Slopes(_, _, _, _)
Slopes(alpha, S1, S2, acc) ==
  IF Len(acc) >= Len(S1) THEN acc
  ELSE Slopes(alpha, S1, S2, Append(acc, Slope(alpha, S1[Len(acc) + 1], S2[Len(acc) + 1])))

\* forecast = [np.nan]; for i in range(1, len(y)): forecast.append(a[i-1] + b[i-1])
RECURSIVE InSampleLoop(_, _, _)
InSampleLoop(a, b, forecast) ==
  IF Len(forecast) >= Len(a) THEN forecast
  ELSE InSampleLoop(a, b, Append(forecast, FAdd(a[Len(forecast)], b[Len(forecast)])))

\* faulty variant: the forecast at i uses the coefficients of i itself, without lag
RECURSIVE InSampleNoLagLoop(_, _, _)
InSampleNoLagLoop(a, b, forecast) ==
  IF Len(forecast) >= Len(a) THEN forecast
  ELSE InSampleNoLagLoop(a, b, Append(forecast, FAdd(a[Len(forecast) + 1], b[Len(forecast) + 1])))

InSampleNoLag(a, b) == InSampleNoLagLoop(a, b, <<FNaN>>)

InSample(a, b) == InSampleLoop(a, b, <<FNaN>>)

\* np.add.reduce over fewer than 8 elements: a left-to-right sum from 0.0
RECURSIVE SumFrom(_, _, _)
SumFrom(xs, i, acc) ==
  IF i > Len(xs) \/ acc.s < 0 THEN acc
  ELSE SumFrom(xs, i + 1, FAdd(acc, xs[i]))

\* faulty variant: the mean divides by the length of the whole series
MeanOverAll(xs) == FDiv(SumFrom(xs, 1, FZero(0)), FromInt(Len(xs) + 1))

\* np.mean: the sum over the count; nan (with a warning) for an empty array
Mean(xs) == FDiv(SumFrom(xs, 1, FZero(0)), FromInt(Len(xs)))

AbsError(actual, pred) == FAbs(FSub(actual, pred))

\* (actual - pred)**2: numpy squares by multiplying
SqError(actual, pred) == FMul(FSub(actual, pred), FSub(actual, pred))

PctError(actual, pred) == FAbs(FDiv(FSub(actual, pred), actual))

\* np.abs(actual - pred), elementwise over the aligned arrays
RECURSIVE AbsErrors(_, _, _)
AbsErrors(actual, pred, acc) ==
  IF Len(acc) >= Len(actual) THEN acc
  ELSE AbsErrors(actual, pred, Append(acc, AbsError(actual[Len(acc) + 1], pred[Len(acc) + 1])))

RECURSIVE SqErrors(_, _, _)
SqErrors(actual, pred, acc) ==
  IF Len(acc) >= Len(actual) THEN acc
  ELSE SqErrors(actual, pred, Append(acc, SqError(actual[Len(acc) + 1], pred[Len(acc) + 1])))

RECURSIVE PctErrors(_, _, _)
PctErrors(actual, pred, acc) ==
  IF Len(acc) >= Len(actual) THEN acc
  ELSE PctErrors(actual, pred, Append(acc, PctError(actual[Len(acc) + 1], pred[Len(acc) + 1])))

MAE(actual, pred) == Mean(AbsErrors(actual, pred, <<>>))

MSE(actual, pred) == Mean(SqErrors(actual, pred, <<>>))

RMSE(mse) == FSqrt(mse)

MAPE(actual, pred) == FMul(Mean(PctErrors(actual, pred, <<>>)), Hundred)

\* number of projected years (range(1, 6) in deploy2, n_forecast in deploy1)
Horizon == 5

\* start_year of deploy1
StartYear == 2022

\* faulty variant: the continuation starts at the last observed year itself
FutureYearsFromLast(script, tahun) ==
  IF script = "deploy2"
  THEN [m \in 1..Horizon |-> tahun[Len(tahun)] + (m - 1)]
  ELSE [m \in 1..Horizon |-> StartYear + (m - 1)]

\* np.arange(tahun[-1] + 1, tahun[-1] + 6) in deploy2,
\* np.arange(start_year, start_year + n_forecast) in deploy1
FutureYears(script, tahun) ==
  IF script = "deploy2"
  THEN [m \in 1..Horizon |-> tahun[Len(tahun)] + m]
  ELSE [m \in 1..Horizon |-> StartYear + (m - 1)]

FutureValue(aLast, bLast, m) == FAdd(aLast, FMul(bLast, FromInt(m)))

\* future_forecast = [a[-1] + b[-1]*m for m in range(1, 6)]
RECURSIVE FutureForecast(_, _, _)
FutureForecast(aLast, bLast, acc) ==
  IF Len(acc) >= Horizon THEN acc
  ELSE FutureForecast(aLast, bLast, Append(acc, FutureValue(aLast, bLast, Len(acc) + 1)))

\* df_future: the columns Year and Forecast_GINI_Disp, row by row
FutureTable(years, vals) ==
  [m \in 1..Len(vals) |-> [Year |-> years[m], Forecast |-> vals[m]]]

NoOutput(status) ==
  [status |-> status, S1 |-> <<>>, S2 |-> <<>>, a |-> <<>>, b |-> <<>>,
   forecast |-> <<>>, mae |-> FNaN, mse |-> FNaN, rmse |-> FNaN, mape |-> FNaN,
   future |-> <<>>]

\* the evaluation and the projection, from the in-sample forecast on
Evaluate(script, tahun, y, S1, S2, a, b, forecast, mse) ==
  [status |-> "ok", S1 |-> S1, S2 |-> S2, a |-> a, b |-> b, forecast |-> forecast,
   mae |-> MAE(Tail(y), Tail(forecast)), mse |-> mse, rmse |-> RMSE(mse),
   mape |-> MAPE(Tail(y), Tail(forecast)),
   future |-> FutureTable(FutureYears(script, tahun),
                          FutureForecast(a[Len(a)], b[Len(b)], <<>>))]

Forecasts(script, tahun, y, S1, S2, a, b, forecast) ==
  Evaluate(script, tahun, y, S1, S2, a, b, forecast, MSE(Tail(y), Tail(forecast)))

Coefficients(script, tahun, y, alpha, S1, S2, a, b) ==
  Forecasts(script, tahun, y, S1, S2, a, b, InSample(a, b))

Smoothed(script, tahun, y, alpha, sm) ==
  Coefficients(script, tahun, y, alpha, sm.S1, sm.S2,
               Levels(sm.S1, sm.S2, <<>>), Slopes(alpha, sm.S1, sm.S2, <<>>))

\* the body of "if st.button(...)": the outcome of one pressed run.
\* y[0] of an empty array raises IndexError before anything is computed.
Modeling(script, frame, alpha) ==
  IF Len(frame) = 0 THEN NoOutput("IndexError")
  ELSE IF IsZero(FSub(One, alpha)) THEN NoOutput("ZeroDivisionError")
  ELSE Smoothed(script, [i \in 1..Len(frame) |-> frame[i].year],
                [i \in 1..Len(frame) |-> frame[i].gini_disp], alpha,
                Smooth([i \in 1..Len(frame) |-> frame[i].gini_disp], alpha))

NoRun == [alpha |-> FNaN, page |-> NoOutput("idle")]

Init ==
  /\ program \in Scripts
  /\ cached = FALSE
  /\ df = <<>>
  /\ slider = Hundredths(SliderDefault)
  /\ page = NoOutput("idle")
  /\ firstRun = NoRun

\* the first script run: main() calls load_data(), whose result is cached;
\* the button has not been pressed, so nothing is computed
LoadData ==
  /\ ~cached
  /\ cached' = TRUE
  /\ df' \in Frames
  /\ page' = NoOutput("idle")
  /\ UNCHANGED <<program, slider, firstRun>>

\* the user moves the slider: the script reruns with the button unpressed
MoveSlider ==
  /\ cached
  /\ \E v \in SliderValues : v # slider /\ slider' = v
  /\ page' = NoOutput("idle")
  /\ UNCHANGED <<program, cached, df, firstRun>>

\* the user presses the button: the script reruns, load_data() answers from
\* the cache and modeling_page computes DES with alpha = the slider's value
PressButton ==
  /\ cached
  /\ page' = Modeling(program, df, slider)
  /\ firstRun' = IF firstRun = NoRun THEN [alpha |-> slider, page |-> page'] ELSE firstRun
  /\ UNCHANGED <<program, cached, df, slider>>

Next == LoadData \/ MoveSlider \/ PressButton

Spec == Init /\ [][Next]_vars

(***************************************************************************)
(* Properties.  Indices are 1-based here: index i stands for Python's      *)
(* index i - 1, so "for t in 1..n-1" reads "for t in 2..N".                *)
(***************************************************************************)

\* a pressed run was the last script run
Ran == page.status # "idle"

\* the pressed run ran to its end (st.success was reached)
Completed == page.status = "ok"

N == Len(df)

Y == [i \in 1..Len(df) |-> df[i].gini_disp]

\* exact (unrounded) dyadic numbers (-1)^s * m * 2^e, to state tolerances
DOf(v) == [s |-> v.s, m |-> v.m, e |-> v.e]

DNeg(d) == [d EXCEPT !.s = 1 - d.s]

DScale(d, k) == [d EXCEPT !.e = d.e + k]

DTimes(d, k) == [d EXCEPT !.m = MulSmall(d.m, k)]

DAdd(c, d) ==
  LET e  == Min(c.e, d.e)
      Mc == BShl(c.m, c.e - e)
      Md == BShl(d.m, d.e - e)
  IN  IF c.s = d.s THEN [s |-> c.s, m |-> BAdd(Mc, Md), e |-> e]
      ELSE IF BCmp(Mc, Md) >= 0 THEN [s |-> c.s, m |-> BSub(Mc, Md), e |-> e]
      ELSE [s |-> d.s, m |-> BSub(Md, Mc), e |-> e]

\* c <= d on the reals
DLe(c, d) == LET diff == DAdd(c, DNeg(d)) IN diff.m = <<>> \/ diff.s = 1

\* C2: for every valid alpha, a run on a series of length 0 or 1 ends in the
\* distinct error outcome InsufficientData (no other failure, no normal
\* completion with undefined metrics).
C2_ShortSeriesInsufficientData ==
  (Ran /\ N < 2) => page.status = "InsufficientData"

\* C3: for a series of length >= 2, if an actual value y[i], 1 <= i <= n-1,
\* is exactly 0, the run signals DivisionByZero instead of completing with
\* an inf/NaN MAPE reported as a normal result.
C3_ZeroActualSignalled ==
  (Ran /\ N >= 2 /\ \E i \in 2..N : IsZero(Y[i])) => page.status = "DivisionByZero"

\* C4: for n >= 2 the future table has exactly Horizon = 5 rows; row m holds
\* the value a[n-1] + b[n-1]*m and the period last_observed + m (deploy2,
\* continuation) or 2022 + (m-1) (deploy1, fixed start); periods increase by 1.
C4_FutureTable ==
  (Completed /\ N >= 2) =>
    /\ Len(page.future) = 5
    /\ \A m \in 1..5 :
         /\ page.future[m].Forecast = FAdd(page.a[N], FMul(page.b[N], FromInt(m)))
         /\ page.future[m].Year =
              IF program = "deploy2" THEN df[N].year + m ELSE 2022 + (m - 1)
    /\ \A m \in 1..4 : page.future[m + 1].Year = page.future[m].Year + 1

\* a completed continuation-mode run whose projection has a non-zero slope
C4_Witness ==
  /\ Completed /\ N >= 2 /\ program = "deploy2"
  /\ ~IsZero(page.b[N])
  /\ page.future[5].Year = df[N].year + 5

\* the general part of C5: length n, undefined first entry, and the lagged
\* one-step reconstruction from a and b as computed from S1, S2 and alpha
InSampleShape ==
  /\ Len(page.forecast) = N
  /\ IsNaN(page.forecast[1])
  /\ \A i \in 2..N : page.forecast[i] = FAdd(page.a[i - 1], page.b[i - 1])
  /\ \A j \in 1..N :
       /\ page.a[j] = FSub(FMul(FromInt(2), page.S1[j]), page.S2[j])
       /\ page.b[j] = FMul(FDiv(slider, FSub(FromInt(1), slider)),
                           FSub(page.S1[j], page.S2[j]))

\* the run of the worked example: values 0.60, 0.62, 0.59, 0.63, alpha 0.8
ExampleRun == Completed /\ Y = ExampleSeries /\ slider = Hundredths(80)

\* the literal 0.632 and the tolerance 1e-9 as binary64 values
Literal632 == FDiv(FromInt(632), FromInt(1000))

Tolerance == FDiv(FromInt(1), FromInt(1000000000))

\* C5 as stated: the general part, and forecast[2] = 0.632 in the example
C5_InSampleExact ==
  (Completed /\ N >= 2) =>
    /\ InSampleShape
    /\ ExampleRun => page.forecast[3] = Literal632

\* C5 (amended): the general part, and in the example forecast[2] is 0.632 to
\* within 1e-9 (the binary64 result is not the literal 0.632)
C5_InSample ==
  (Completed /\ N >= 2) =>
    /\ InSampleShape
    /\ ExampleRun =>
         /\ FLe(FAbs(FSub(page.forecast[3], Literal632)), Tolerance)
         /\ page.forecast[3] # Literal632

C5_Witness == ExampleRun /\ IsNumber(page.forecast[3]) /\ IsNaN(page.forecast[1])

C7_Recurrence ==
  (Completed /\ N >= 2) =>
    /\ Len(page.S1) = N /\ Len(page.S2) = N
    /\ page.S1[1] = Y[1] /\ page.S2[1] = Y[1]
    /\ \A t \in 2..N :
         /\ page.S1[t] = FAdd(FMul(slider, Y[t]),
                              FMul(FSub(FromInt(1), slider), page.S1[t - 1]))
         /\ page.S2[t] = FAdd(FMul(slider, page.S1[t]),
                              FMul(FSub(FromInt(1), slider), page.S2[t - 1]))

\* a run over three points in which the same-step and the lagged S1 differ
C7_Witness ==
  /\ Completed /\ N >= 3
  /\ page.S1[3] # page.S1[2]
  /\ page.S2[3] # page.S1[3]

\* the sum over i = 1..n-1 (here from..N) of the absolute or squared error
RECURSIVE ErrorSum(_, _, _)
ErrorSum(squared, i, acc) ==
  IF i > N \/ acc.s < 0 THEN acc
  ELSE ErrorSum(squared, i + 1,
                FAdd(acc, IF squared
                          THEN FMul(FSub(Y[i], page.forecast[i]), FSub(Y[i], page.forecast[i]))
                          ELSE FAbs(FSub(Y[i], page.forecast[i]))))

\* C8: MAE and MSE are the means of |y[i] - forecast[i]| and of its square
\* over exactly the n-1 indices 1..n-1 (index 0 never enters a sum), and
\* MAE, MSE and RMSE are >= 0.
C8_Metrics ==
  (Completed /\ N >= 2) =>
    /\ page.mae = FDiv(ErrorSum(FALSE, 2, FZero(0)), FromInt(N - 1))
    /\ page.mse = FDiv(ErrorSum(TRUE, 2, FZero(0)), FromInt(N - 1))
    /\ FLe(FZero(0), page.mae)
    /\ FLe(FZero(0), page.mse)
    /\ FLe(FZero(0), page.rmse)

\* a run with two aligned pairs and a positive error
C8_Witness ==
  /\ Completed /\ N >= 3
  /\ FLt(FZero(0), page.mae)
  /\ FLt(FZero(0), page.rmse)

\* r lies between p and q (inclusive)
Between(r, p, q) == FLe(FMin(p, q), r) /\ FLe(r, FMax(p, q))

\* r lies within 2^-51 * max(|p|, |q|) of the interval between p and q
NearlyBetween(r, p, q) ==
  LET tol == DScale(DOf(FMax(FAbs(p), FAbs(q))), -51)
  IN  /\ DLe(DAdd(DOf(FMin(p, q)), DNeg(tol)), DOf(r))
      /\ DLe(DOf(r), DAdd(DOf(FMax(p, q)), tol))

RECURSIVE MinUpTo(_), MaxUpTo(_), MaxAbsUpTo(_)
MinUpTo(t) == IF t = 1 THEN Y[1] ELSE FMin(Y[t], MinUpTo(t - 1))

MaxUpTo(t) == IF t = 1 THEN Y[1] ELSE FMax(Y[t], MaxUpTo(t - 1))

MaxAbsUpTo(t) == IF t = 1 THEN FAbs(Y[1]) ELSE FMax(FAbs(Y[t]), MaxAbsUpTo(t - 1))

\* r lies within (t-1) * 2^-49 * max|y[..t]| of [min y[..t], max y[..t]]
NearlyInRange(r, t) ==
  LET tol == DScale(DTimes(DOf(MaxAbsUpTo(t)), t - 1), -49)
  IN  /\ DLe(DAdd(DOf(MinUpTo(t)), DNeg(tol)), DOf(r))
      /\ DLe(DOf(r), DAdd(DOf(MaxUpTo(t)), tol))

\* C9 as stated: S1[t] lies between y[t] and S1[t-1], S2[t] between S1[t]
\* and S2[t-1], and both between the minimum and maximum of y[0..t]
C9_ConvexExact ==
  Completed =>
    \A t \in 2..N :
      /\ Between(page.S1[t], Y[t], page.S1[t - 1])
      /\ Between(page.S2[t], page.S1[t], page.S2[t - 1])
      /\ Between(page.S1[t], MinUpTo(t), MaxUpTo(t))
      /\ Between(page.S2[t], MinUpTo(t), MaxUpTo(t))

\* C9 (amended): the bounds hold up to binary64 rounding: S1[t] within
\* 2^-51 * max(|y[t]|, |S1[t-1]|) of the interval between y[t] and S1[t-1],
\* S2[t] likewise for S1[t] and S2[t-1], and both within
\* t * 2^-49 * max|y[0..t]| of [min y[0..t], max y[0..t]]
C9_Convex ==
  Completed =>
    \A t \in 2..N :
      /\ NearlyBetween(page.S1[t], Y[t], page.S1[t - 1])
      /\ NearlyBetween(page.S2[t], page.S1[t], page.S2[t - 1])
      /\ NearlyInRange(page.S1[t], t)
      /\ NearlyInRange(page.S2[t], t)

\* a run in which rounding puts S1[1] above both y[1] and S1[0]
C9_Witness ==
  /\ Completed /\ N >= 2
  /\ FLt(FMax(Y[2], page.S1[1]), page.S1[2])

\* C10: outputs exist only after the button was pressed on a loaded frame,
\* every run's alpha is the slider's value, which lies in [0.1, 0.9], and
\* the denominator 1 - alpha is never zero (no run ends in ZeroDivisionError)
C10_AlphaInSliderRange ==
  /\ Ran => cached
  /\ FLe(Hundredths(10), slider) /\ FLe(slider, Hundredths(90))
  /\ ~IsZero(FSub(FromInt(1), slider))
  /\ page.status # "ZeroDivisionError"

\* completed runs at both ends of the slider
C10_Witness ==
  /\ Completed /\ N >= 2
  /\ slider = Hundredths(90)
  /\ firstRun.alpha = Hundredths(10)
====
